---- MODULE Spec2Model ----
(***************************************************************************)
(* State-machine model of the Sony live-view helper DLL.                   *)
(*                                                                         *)
(*   src/CameraControl.Devices/Sony/SonySDKHelperSimple.cpp                *)
(*       the build that binds Cr_Core.dll lazily (build = Simple)          *)
(*   src/CameraControl.Devices/Sony/SonySDKHelper.cpp                      *)
(*       the build that imports GetLiveViewImage at link time              *)
(*       (build = Linked)                                                  *)
(*                                                                         *)
(* Pointers are small integers, 0 is the null pointer.  The host (the      *)
(* managed caller) and the vendor routine GetLiveViewImage are the         *)
(* environment: their choices are drawn from small sets.                   *)
(***************************************************************************)
EXTENDS Integers, Sequences, FiniteSets

\* ------------------------------------------------------------- bounds
\* Number of block handles the allocator can hand out at one time.
MaxBlocks == 2
\* Largest value of a CrInt32u size / imageSize / bufferSize in the model,
\* and the number of bytes modelled behind a host pointer.
MaxSize == 2

\* ---------------------------------------------------------- constants
NULL == 0
\* return 0x8001; // CrError_Generic
CrError_Generic == 32769
\* the two builds of the helper DLL
Simple == 1
Linked == 2
\* Cr_Core.dll on the library search path: absent, present and exporting
\* GetLiveViewImage, present without that export.  A loaded module is
\* identified by the kind of file it was loaded from.
LibAbsent == 0
LibFull == 1
LibNoSym == 2
\* the address of the vendor's GetLiveViewImage
VendorFn == 1

Handle == 1..MaxBlocks
\* host pixel buffers (the values the host passes as data pointers)
Buf == {1}
\* the host's destination buffer
DestPtr == 1
\* device handles the host passes
Dev == {1}
Sizes == 0..MaxSize
\* Bytes are named, not valued: the helper never looks at one.  Untouched is a
\* byte of the destination as the host left it, SrcByte(p, i) is byte i behind
\* the host pointer p at the time of the copy.
Untouched == 0
SrcByte(p, i) == (p - 1) * MaxSize + i
\* the destination buffer before a copy
HostDest == [i \in 1..MaxSize |-> Untouched]
\* the memory behind the host pointer p.  MaxSize bytes behind it are readable,
\* whatever the block's size field says: the helper never learns how long the
\* host's buffer is.
Source(p) == [i \in 1..MaxSize |-> SrcByte(p, i)]
\* values the vendor routine may return: success, its own generic error
\* (the same number as the shim's), another error
VendorResults == {0, CrError_Generic, CrError_Generic + 1}

VARIABLES
    build,              \* which source file the DLL was built from
    libFile,            \* environment: Cr_Core.dll on the search path
    hSonyDll,           \* static HMODULE hSonyDll
    pGetLiveViewImage,  \* static GetLiveViewImageFunc pGetLiveViewImage
    live,               \* handles returned by new and not yet deleted
    blocks,             \* the ImageDataBlockWrapper behind each handle
    call,               \* the last entry-point call: arguments, result, trace
    loadsOk,            \* number of LoadLibraryA calls that returned a module
    loadFailed,         \* some LoadLibraryA call has returned NULL
    pc,                 \* concurrent use: each thread's place in the helper
    th                  \* concurrent use: each thread's arguments and result

vars == <<build, libFile, hSonyDll, pGetLiveViewImage, live, blocks, call,
          loadsOk, loadFailed, pc, th>>

binding == <<hSonyDll, pGetLiveViewImage, loadsOk, loadFailed>>

\* ImageDataBlockWrapper() : frameNo(0), size(0), pData(nullptr),
\*                           imageSize(0), timeCode(0)
ImageDataBlockWrapper ==
    [frameNo |-> 0, size |-> 0, pData |-> NULL, imageSize |-> 0, timeCode |-> 0]

\* The record of one call.  vendor is the sequence of vendor invocations the
\* call made, each <<deviceHandle, imageData, result>>; loads and resolves
\* count its LoadLibraryA and GetProcAddress calls; written is the byte count
\* it handed to memcpy and dest the destination buffer when it returned.
Call(op, a, b, c, ret) ==
    [op |-> op, a |-> a, b |-> b, c |-> c, ret |-> ret,
     loads |-> 0, resolves |-> 0, vendor |-> <<>>, written |-> 0,
     dest |-> HostDest]

\* the host threads of the concurrent specification
Thread == {1, 2}
Idle == [dev |-> NULL, blk |-> NULL, ret |-> 0, vendor |-> <<>>]

Init ==
    /\ build \in {Simple, Linked}
    /\ libFile \in (IF build = Linked THEN {LibFull}
                    ELSE {LibAbsent, LibFull, LibNoSym})
    /\ hSonyDll = NULL
    /\ pGetLiveViewImage = NULL
    /\ live = {}
    /\ blocks = [h \in Handle |-> ImageDataBlockWrapper]
    /\ call = Call("start", 0, 0, 0, 0)
    /\ loadsOk = 0
    /\ loadFailed = FALSE
    /\ pc = [t \in Thread |-> "idle"]
    /\ th = [t \in Thread |-> Idle]

\* ------------------------------------------------------- block store
\* The six block entry points read the same in both source files; in
\* SonySDKHelper.cpp the block is the vendor's CrImageDataBlock and SetSize,
\* SetData, GetImageSize and GetImageData are its accessors of the same
\* fields.  The host passes a live handle or null (HandleArgs): a freed handle
\* is outside the contract.

CreateImageDataBlock ==
    \E h \in Handle \ live :
        /\ live' = live \cup {h}
        /\ blocks' = [blocks EXCEPT ![h] = ImageDataBlockWrapper]
        /\ call' = Call("CreateImageDataBlock", 0, 0, 0, h)
        /\ UNCHANGED <<build, libFile, binding>>

DestroyImageDataBlock(imageData) ==
    /\ IF imageData # NULL
       THEN /\ live' = live \ {imageData}
            /\ blocks' = [blocks EXCEPT ![imageData] = ImageDataBlockWrapper]
       ELSE UNCHANGED <<live, blocks>>
    /\ call' = Call("DestroyImageDataBlock", imageData, 0, 0, 0)
    /\ UNCHANGED <<build, libFile, binding>>

\* a setter that stores into the wrong field
SetImageDataBlockSize_ImageSize(imageData, size) ==
    /\ IF imageData # NULL
       THEN blocks' = [blocks EXCEPT ![imageData].imageSize = size]
       ELSE UNCHANGED blocks
    /\ call' = Call("SetImageDataBlockSize", imageData, size, 0, 0)
    /\ UNCHANGED <<build, libFile, binding, live>>

SetImageDataBlockSize(imageData, size) ==
    /\ IF imageData # NULL
       THEN blocks' = [blocks EXCEPT ![imageData].size = size]
       ELSE UNCHANGED blocks
    /\ call' = Call("SetImageDataBlockSize", imageData, size, 0, 0)
    /\ UNCHANGED <<build, libFile, binding, live>>

SetImageDataBlockData(imageData, data) ==
    /\ IF imageData # NULL
       THEN blocks' = [blocks EXCEPT ![imageData].pData = data]
       ELSE UNCHANGED blocks
    /\ call' = Call("SetImageDataBlockData", imageData, data, 0, 0)
    /\ UNCHANGED <<build, libFile, binding, live>>

\* a getter that answers a null handle with the error code instead of 0
GetImageDataBlockImageSize_NullGeneric(imageData) ==
    /\ call' = Call("GetImageDataBlockImageSize", imageData, 0, 0,
                    IF imageData # NULL THEN blocks[imageData].imageSize
                    ELSE CrError_Generic)
    /\ UNCHANGED <<build, libFile, binding, live, blocks>>

GetImageDataBlockImageSize(imageData) ==
    /\ call' = Call("GetImageDataBlockImageSize", imageData, 0, 0,
                    IF imageData # NULL THEN blocks[imageData].imageSize ELSE 0)
    /\ UNCHANGED <<build, libFile, binding, live, blocks>>

GetImageDataBlockImageData(imageData) ==
    /\ call' = Call("GetImageDataBlockImageData", imageData, 0, 0,
                    IF imageData # NULL THEN blocks[imageData].pData ELSE NULL)
    /\ UNCHANGED <<build, libFile, binding, live, blocks>>

\* ------------------------------------------------------ vendor binding

\* a one-shot guard: the load is attempted once and never retried
NeedLoad_Once == hSonyDll = NULL /\ ~loadFailed
\* no guard: the library is loaded on every call
NeedLoad_Always == TRUE
\* a guard on either static: a missing symbol makes every call load again
NeedLoad_Retry == hSonyDll = NULL \/ pGetLiveViewImage = NULL

\* if (!hSonyDll)
NeedLoad == hSonyDll = NULL

\* LoadLibraryA("Cr_Core.dll"): the module for the file on the search path,
\* NULL when there is none
LoadLibraryA == libFile

\* GetProcAddress(hSonyDll, "GetLiveViewImage")
GetProcAddress(module) == IF module = LibFull THEN VendorFn ELSE NULL

\* the check without its device-handle test
CanForward_NoDevice(deviceHandle, imageData, fn) ==
    imageData # NULL /\ fn # NULL

\* if (deviceHandle && imageData && pGetLiveViewImage)
CanForward(deviceHandle, imageData, fn) ==
    deviceHandle # NULL /\ imageData # NULL /\ fn # NULL

\* What one run of the vendor's GetLiveViewImage can do to the block it is
\* given: report any image size, stamp frame number and time code, fill the
\* reported number of bytes behind the block's data pointer, return any code.
VendorOutcomes == [result : VendorResults, imageSize : Sizes, stamp : {1}]

VendorBlock(b, out) ==
    [b EXCEPT !.frameNo = out.stamp, !.imageSize = out.imageSize,
              !.timeCode = out.stamp]

\* pGetLiveViewImage(deviceHandle, imageData) and the return of its value
Forward(deviceHandle, imageData, loads, resolves) ==
    \E out \in VendorOutcomes :
        /\ blocks' = [blocks EXCEPT ![imageData] = VendorBlock(@, out)]
        /\ call' = [Call("GetLiveViewImageHelper", deviceHandle, imageData, 0,
                         out.result)
                    EXCEPT !.loads = loads, !.resolves = resolves,
                           !.vendor = << <<deviceHandle, imageData, out.result>> >>]

\* return 0x8001; // CrError_Generic
Fail(deviceHandle, imageData, loads, resolves) ==
    /\ call' = [Call("GetLiveViewImageHelper", deviceHandle, imageData, 0,
                     CrError_Generic)
                EXCEPT !.loads = loads, !.resolves = resolves]
    /\ UNCHANGED blocks

\* SonySDKHelperSimple.cpp, one whole call
GetLiveViewImageHelper(deviceHandle, imageData) ==
    /\ build = Simple
    /\ LET need == NeedLoad
           module == IF need THEN LoadLibraryA ELSE hSonyDll
           resolve == need /\ module # NULL
           fn == IF resolve THEN GetProcAddress(module) ELSE pGetLiveViewImage
           early == need /\ (module = NULL \/ fn = NULL)
           loads == IF need THEN 1 ELSE 0
           resolves == IF resolve THEN 1 ELSE 0
       IN  /\ hSonyDll' = module
           /\ pGetLiveViewImage' = fn
           /\ loadsOk' = IF resolve THEN loadsOk + 1 ELSE loadsOk
           /\ loadFailed' = (loadFailed \/ (need /\ module = NULL))
           /\ IF ~early /\ CanForward(deviceHandle, imageData, fn)
              THEN Forward(deviceHandle, imageData, loads, resolves)
              ELSE Fail(deviceHandle, imageData, loads, resolves)
    /\ UNCHANGED <<build, libFile, live>>

\* SonySDKHelper.cpp, one whole call: the import is bound by the process
\* loader, the helper only checks its arguments
GetLiveViewImageHelperLinked(deviceHandle, imageData) ==
    /\ build = Linked
    /\ IF deviceHandle # NULL /\ imageData # NULL
       THEN Forward(deviceHandle, imageData, 0, 0)
       ELSE Fail(deviceHandle, imageData, 0, 0)
    /\ UNCHANGED <<build, libFile, binding, live>>

\* The host installs, replaces or removes Cr_Core.dll.  The file of a loaded
\* module cannot change.
InstallLibrary(file) ==
    /\ build = Simple
    /\ hSonyDll = NULL
    /\ file # libFile
    /\ libFile' = file
    /\ call' = Call("InstallLibrary", file, 0, 0, 0)
    /\ UNCHANGED <<build, binding, live, blocks>>

\* ------------------------------------------------------------ copy out

\* the guard without its capacity test
CopyGuard_NoCapacity(wrapper, bufferSize) ==
    wrapper.pData # NULL /\ wrapper.imageSize > 0

\* if (wrapper->pData && wrapper->imageSize > 0 &&
\*     wrapper->imageSize <= bufferSize)
CopyGuard(wrapper, bufferSize) ==
    wrapper.pData # NULL /\ wrapper.imageSize > 0
        /\ wrapper.imageSize <= bufferSize

\* memcpy(d, s, n) on the modelled bytes
Memcpy(d, s, n) == [i \in 1..MaxSize |-> IF i <= n THEN s[i] ELSE d[i]]

CopyImageData(imageData, destBuffer, bufferSize) ==
    /\ IF imageData # NULL /\ destBuffer # NULL
          /\ CopyGuard(blocks[imageData], bufferSize)
       THEN call' = [Call("CopyImageData", imageData, destBuffer,
                          bufferSize, 0)
                     EXCEPT !.written = blocks[imageData].imageSize,
                            !.dest = Memcpy(HostDest,
                                            Source(blocks[imageData].pData),
                                            blocks[imageData].imageSize)]
       ELSE call' = Call("CopyImageData", imageData, destBuffer, bufferSize, 0)
    /\ UNCHANGED <<build, libFile, binding, live, blocks>>

\* ------------------------------------------------- sequential behaviour

\* the handles a host may pass: a live block or null
HandleArgs == live \cup {NULL}

Call1 ==
    \/ CreateImageDataBlock
    \/ \E h \in HandleArgs : DestroyImageDataBlock(h)
    \/ \E h \in HandleArgs, n \in Sizes : SetImageDataBlockSize(h, n)
    \/ \E h \in HandleArgs, p \in Buf \cup {NULL} : SetImageDataBlockData(h, p)
    \/ \E h \in HandleArgs : GetImageDataBlockImageSize(h)
    \/ \E h \in HandleArgs : GetImageDataBlockImageData(h)
    \/ \E d \in Dev \cup {NULL}, h \in HandleArgs : GetLiveViewImageHelper(d, h)
    \/ \E d \in Dev \cup {NULL}, h \in HandleArgs :
            GetLiveViewImageHelperLinked(d, h)
    \/ \E h \in HandleArgs, p \in {DestPtr, NULL}, n \in Sizes :
            CopyImageData(h, p, n)
    \/ \E f \in {LibAbsent, LibFull, LibNoSym} : InstallLibrary(f)

\* strictly sequential use: one whole call at a time
Next == Call1 /\ UNCHANGED <<pc, th>>

Spec == Init /\ [][Next]_vars

\* ------------------------------------------------- concurrent first use
\* Two host threads inside GetLiveViewImageHelper of the lazily binding build,
\* one statement at a time.  hSonyDll and pGetLiveViewImage are plain statics
\* with no lock around them, so every read and write of them is a step of its
\* own.  The host keeps its side of the contract: a block is used by one
\* thread at a time.

Enter(t, deviceHandle, imageData) ==
    /\ build = Simple
    /\ pc[t] = "idle"
    /\ imageData = NULL \/ \A u \in Thread : th[u].blk # imageData
    /\ th' = [th EXCEPT ![t] = [Idle EXCEPT !.dev = deviceHandle,
                                            !.blk = imageData]]
    /\ pc' = [pc EXCEPT ![t] = "L81"]
    /\ UNCHANGED <<build, libFile, binding, live, blocks, call>>

\* if (!hSonyDll) {
L81(t) ==
    /\ pc[t] = "L81"
    /\ pc' = [pc EXCEPT ![t] = IF NeedLoad THEN "L82" ELSE "L94"]
    /\ UNCHANGED <<build, libFile, binding, live, blocks, call, th>>

\* hSonyDll = LoadLibraryA("Cr_Core.dll");
L82(t) ==
    /\ pc[t] = "L82"
    /\ hSonyDll' = LoadLibraryA
    /\ loadsOk' = IF LoadLibraryA # NULL THEN loadsOk + 1 ELSE loadsOk
    /\ loadFailed' = (loadFailed \/ LoadLibraryA = NULL)
    /\ pc' = [pc EXCEPT ![t] = "L83"]
    /\ UNCHANGED <<build, libFile, pGetLiveViewImage, live, blocks, call, th>>

\* return 0x8001; // CrError_Generic
Return8001(t) ==
    /\ th' = [th EXCEPT ![t].ret = CrError_Generic]
    /\ pc' = [pc EXCEPT ![t] = "done"]

\* if (!hSonyDll) { return 0x8001; }
L83(t) ==
    /\ pc[t] = "L83"
    /\ IF hSonyDll = NULL
       THEN Return8001(t)
       ELSE pc' = [pc EXCEPT ![t] = "L88"] /\ UNCHANGED th
    /\ UNCHANGED <<build, libFile, binding, live, blocks, call>>

\* pGetLiveViewImage = (GetLiveViewImageFunc)GetProcAddress(hSonyDll, ...);
L88(t) ==
    /\ pc[t] = "L88"
    /\ pGetLiveViewImage' = GetProcAddress(hSonyDll)
    /\ pc' = [pc EXCEPT ![t] = "L89"]
    /\ UNCHANGED <<build, libFile, hSonyDll, loadsOk, loadFailed, live, blocks,
                   call, th>>

\* if (!pGetLiveViewImage) { return 0x8001; }
L89(t) ==
    /\ pc[t] = "L89"
    /\ IF pGetLiveViewImage = NULL
       THEN Return8001(t)
       ELSE pc' = [pc EXCEPT ![t] = "L94"] /\ UNCHANGED th
    /\ UNCHANGED <<build, libFile, binding, live, blocks, call>>

\* if (deviceHandle && imageData && pGetLiveViewImage) ... return 0x8001;
L94(t) ==
    /\ pc[t] = "L94"
    /\ IF CanForward(th[t].dev, th[t].blk, pGetLiveViewImage)
       THEN pc' = [pc EXCEPT ![t] = "L96"] /\ UNCHANGED th
       ELSE Return8001(t)
    /\ UNCHANGED <<build, libFile, binding, live, blocks, call>>

\* return pGetLiveViewImage(deviceHandle, imageData);
L96(t) ==
    /\ pc[t] = "L96"
    /\ \E out \in VendorOutcomes :
        /\ blocks' = [blocks EXCEPT ![th[t].blk] = VendorBlock(@, out)]
        /\ th' = [th EXCEPT ![t].ret = out.result,
                            ![t].vendor =
                                << <<th[t].dev, th[t].blk, out.result>> >>]
    /\ pc' = [pc EXCEPT ![t] = "done"]
    /\ UNCHANGED <<build, libFile, binding, live, call>>

RaceNext ==
    \/ CreateImageDataBlock /\ UNCHANGED <<pc, th>>
    \/ \E t \in Thread, d \in Dev \cup {NULL}, h \in HandleArgs : Enter(t, d, h)
    \/ \E t \in Thread : L81(t)
    \/ \E t \in Thread : L82(t)
    \/ \E t \in Thread : L83(t)
    \/ \E t \in Thread : L88(t)
    \/ \E t \in Thread : L89(t)
    \/ \E t \in Thread : L94(t)
    \/ \E t \in Thread : L96(t)

SpecRace == Init /\ [][RaceNext]_vars

\* ============================================================== claims
Fetch == "GetLiveViewImageHelper"
\* the module a fetch binds to: the cached one, else the file on the path
BoundModule == IF hSonyDll # NULL THEN hSonyDll ELSE libFile
\* the call that has just returned invoked the vendor once, with the call's
\* own two pointers, and returned the vendor's value
PassedThrough(c) ==
    /\ Len(c.vendor) = 1
    /\ c.vendor[1][1] = c.a /\ c.vendor[1][2] = c.b
    /\ c.ret = c.vendor[1][3]
Min(a, b) == IF a <= b THEN a ELSE b

\* C1: CopyImageData(block, dest, cap) writes exactly image_size bytes, the
\* first image_size bytes behind data_ptr, iff block and dest are non-null,
\* data_ptr is non-null, image_size > 0 and image_size <= cap; otherwise it
\* writes nothing and dest is unchanged; it never writes more than
\* min(image_size, cap) bytes.
C1_CopyExact ==
    [][call'.op = "CopyImageData" =>
        LET h == call'.a
            cap == call'.c
            n == call'.written
            ok == /\ h # NULL /\ call'.b # NULL
                  /\ blocks[h].pData # NULL
                  /\ blocks[h].imageSize > 0
                  /\ blocks[h].imageSize <= cap
        IN  /\ ok => /\ n = blocks[h].imageSize
                     /\ call'.dest =
                            [i \in 1..MaxSize |->
                                IF i <= blocks[h].imageSize
                                THEN SrcByte(blocks[h].pData, i)
                                ELSE Untouched]
            /\ ~ok => n = 0 /\ call'.dest = HostDest
            /\ n <= cap
            /\ h # NULL => n <= Min(blocks[h].imageSize, cap)]_vars

C1_Witness ==
    /\ call.op = "CopyImageData"
    /\ call.written > 0 /\ call.written < call.c
    /\ call.dest[1] # Untouched /\ call.dest[MaxSize] = Untouched

\* C2: GetLiveViewImageHelper(device, block) returns the shim's 0x8001 without
\* invoking the vendor exactly when validation fails (null device, null block,
\* library not loadable, symbol not resolvable); otherwise it invokes the
\* vendor once with the same two pointers and returns its value unchanged.
C2_FetchResult ==
    [][call'.op = Fetch =>
        LET invalid == \/ call'.a = NULL
                       \/ call'.b = NULL
                       \/ build = Simple /\ BoundModule = LibAbsent
                       \/ build = Simple /\ BoundModule = LibNoSym
        IN  /\ invalid => call'.ret = CrError_Generic /\ call'.vendor = <<>>
            /\ ~invalid => PassedThrough(call')]_vars

C2_Witness ==
    /\ call.op = Fetch /\ build = Simple
    /\ PassedThrough(call) /\ call.ret = CrError_Generic

\* C3: a failed load caches nothing and is retryable: while no load has
\* succeeded the cached handle and function pointer are empty, a call that
\* fails to load leaves them empty and returns 0x8001, and a call with non-null
\* handles made when the library is loadable and its symbol resolvable loads
\* it, invokes the vendor and returns the vendor's result.
C3_LoadRetry ==
    /\ [](loadsOk = 0 => hSonyDll = NULL /\ pGetLiveViewImage = NULL)
    /\ [][call'.op = Fetch /\ build = Simple /\ hSonyDll = NULL =>
            /\ libFile = LibAbsent =>
                    /\ call'.ret = CrError_Generic /\ call'.vendor = <<>>
                    /\ hSonyDll' = NULL /\ pGetLiveViewImage' = NULL
            /\ libFile = LibFull /\ call'.a # NULL /\ call'.b # NULL =>
                    /\ call'.loads = 1
                    /\ hSonyDll' # NULL /\ pGetLiveViewImage' # NULL
                    /\ PassedThrough(call')]_vars

C3_Witness ==
    /\ loadFailed
    /\ call.op = Fetch /\ call.loads = 1 /\ PassedThrough(call)

\* C4: in sequential use the vendor library is loaded at most once: at most
\* one loader call succeeds, and once the handle is cached no call invokes the
\* loader and the handle is never cleared or replaced.
C4_LoadOnce ==
    /\ [](loadsOk <= 1)
    /\ [][hSonyDll # NULL =>
            hSonyDll' = hSonyDll /\ call'.loads = 0 /\ loadsOk' = loadsOk]_vars

C4_Witness ==
    /\ loadsOk = 1 /\ hSonyDll # NULL
    /\ call.op = Fetch /\ call.loads = 0 /\ PassedThrough(call)

\* C5: GetLiveViewImageHelper(D, null) returns 0x8001 and, in every binding
\* state, invokes neither loader nor resolver nor vendor and leaves the cached
\* handle, the cached function pointer and every block unchanged.
C5_NullBlockTouchesNothing ==
    [][call'.op = Fetch /\ call'.b = NULL =>
        /\ call'.ret = CrError_Generic
        /\ call'.loads = 0 /\ call'.resolves = 0 /\ call'.vendor = <<>>
        /\ hSonyDll' = hSonyDll /\ pGetLiveViewImage' = pGetLiveViewImage
        /\ blocks' = blocks]_vars

\* C6: when a block's image_size exceeds its size field, CopyImageData performs
\* no copy, for every destination capacity.
C6_OversizeNoCopy ==
    [][(/\ call'.op = "CopyImageData" /\ call'.a # NULL
        /\ blocks[call'.a].imageSize > blocks[call'.a].size) =>
            call'.written = 0 /\ call'.dest = HostDest]_vars

\* C7: two concurrent first calls with non-null handles, the library loadable
\* and its symbol resolvable: both invoke the vendor and return its result,
\* and afterwards handle and function pointer are both cached.
C7_BothUsable ==
    (/\ libFile = LibFull
     /\ \A t \in Thread :
            pc[t] = "done" /\ th[t].dev # NULL /\ th[t].blk # NULL) =>
        /\ hSonyDll # NULL /\ pGetLiveViewImage # NULL
        /\ \A t \in Thread :
            Len(th[t].vendor) = 1 /\ th[t].ret = th[t].vendor[1][3]

\* C8: every block entry point tolerates a null block handle: destroy, the
\* setters and the copy change no block, no destination byte and not the set
\* of live blocks; the getters return 0 and null.
C8_NullTolerated ==
    [][call'.a = NULL =>
        /\ call'.op \in {"DestroyImageDataBlock", "SetImageDataBlockSize",
                         "SetImageDataBlockData", "CopyImageData"} =>
                /\ blocks' = blocks /\ live' = live
                /\ call'.dest = HostDest /\ call'.written = 0
        /\ call'.op = "GetImageDataBlockImageSize" => call'.ret = 0
        /\ call'.op = "GetImageDataBlockImageData" => call'.ret = NULL]_vars

C8_Witness ==
    /\ call.op = "SetImageDataBlockSize" /\ call.a = NULL /\ call.b = MaxSize
    /\ live = Handle
    /\ \E h \in live : blocks[h].imageSize > 0 /\ blocks[h].size < MaxSize

\* C9: SetImageDataBlockSize(h, n) on a live block changes only the size field
\* of h: what the two getters return for h and for every other block, and the
\* vendor binding, are as before the call.
C9_SetSizeFrame ==
    [][call'.op = "SetImageDataBlockSize" /\ call'.a \in live =>
        /\ \A g \in Handle :
            /\ blocks'[g].imageSize = blocks[g].imageSize
            /\ blocks'[g].pData = blocks[g].pData
            /\ g # call'.a => blocks'[g] = blocks[g]
        /\ blocks'[call'.a] = [blocks[call'.a] EXCEPT !.size = call'.b]
        /\ live' = live
        /\ hSonyDll' = hSonyDll /\ pGetLiveViewImage' = pGetLiveViewImage]_vars

C9_Witness ==
    /\ call.op = "SetImageDataBlockSize" /\ call.a \in live
    /\ blocks[call.a].size = MaxSize
    /\ blocks[call.a].imageSize \notin {0, MaxSize}
    /\ \E g \in live \ {call.a} : blocks[g].imageSize > 0 /\ blocks[g].pData # NULL

\* C10: if the library loads but the fetch symbol is missing, the handle is
\* kept and the binding is stuck: every later call returns 0x8001, invokes
\* neither vendor nor loader nor resolver, and the binding stays as it is.
C10_StuckWithoutSymbol ==
    [][/\ (call'.op = Fetch /\ build = Simple /\ hSonyDll = NULL
                /\ libFile = LibNoSym) =>
            /\ hSonyDll' # NULL /\ pGetLiveViewImage' = NULL
            /\ call'.ret = CrError_Generic /\ call'.vendor = <<>>
       /\ (hSonyDll # NULL /\ pGetLiveViewImage = NULL) =>
            /\ hSonyDll' = hSonyDll /\ pGetLiveViewImage' = NULL
            /\ call'.loads = 0 /\ call'.resolves = 0 /\ call'.vendor = <<>>
            /\ call'.op = Fetch => call'.ret = CrError_Generic]_vars

C10_Witness ==
    /\ hSonyDll # NULL /\ pGetLiveViewImage = NULL
    /\ call.op = Fetch /\ call.a # NULL /\ call.b # NULL
    /\ call.loads = 0 /\ call.ret = CrError_Generic
====
